---------------------------- MODULE Spec2Model ----------------------------
(***************************************************************************)
(* A model of the nix-installer orchestration core:                        *)
(*   - InstallPlan::install (src/src/plan.rs): sequential execution of the *)
(*     plan's actions with rollback on the first failure;                  *)
(*   - ConfigureInitService (src/src/action/common/                        *)
(*     configure_init_service.rs): execute and revert for the systemd,     *)
(*     OpenRC, runit, launchd and "none" init systems, acting on a host    *)
(*     made of filesystem entries and supervisor registration state;       *)
(*   - the standalone revert entry point (src/src/cli/subcommand/          *)
(*     revert.rs).                                                         *)
(***************************************************************************)
EXTENDS Integers, Sequences, FiniteSets, TLC

VARIABLES
    host,        \* the live host: filesystem entries and supervisor state
    plan,        \* InstallPlan.actions: the ordered actions of the plan
    pc,          \* position of the running entry point
    idx,         \* install(): number of plan actions consumed by the for loop
    receipt,     \* install(): Receipt.actions
    ridx,        \* rollback / revert: number of receipts consumed so far
    revert_errs, \* install(): the revert_errs vector
    err,         \* install(): the execute() error that started the rollback
    result,      \* what the entry point returned
    calls,       \* history: every execute()/revert() call, in call order
    host0,       \* history: the host when the entry point started
    cmds         \* history: the steps of the last ConfigureInitService handler

vars == <<host, plan, pc, idx, receipt, ridx, revert_errs, err, result, calls, host0, cmds>>

-----------------------------------------------------------------------------
(* Bounds of the model.                                                    *)

MaxActions == 3

-----------------------------------------------------------------------------
(* Paths (configure_init_service.rs:16-41).                                *)

SERVICE_SRC == "/nix/var/nix/profiles/default/lib/systemd/system/nix-daemon.service"
SERVICE_DEST == "/etc/systemd/system/nix-daemon.service"
SOCKET_SRC == "/nix/var/nix/profiles/default/lib/systemd/system/nix-daemon.socket"
SOCKET_DEST == "/etc/systemd/system/nix-daemon.socket"
TMPFILES_SRC == "/nix/var/nix/profiles/default/lib/tmpfiles.d/nix-daemon.conf"
TMPFILES_DEST == "/etc/tmpfiles.d/nix-daemon.conf"
DAEMON_SRC == "/nix/var/nix/profiles/default/bin/nix-daemon"
OPENRC_SERVICE == "/etc/init.d/nix-daemon"
RUNIT_SERVICE == "/etc/sv/nix-daemon"
RUNIT_SYMLINK == "/var/service/nix-daemon"
RUNIT_RUN_PATH == "/etc/sv/nix-daemon/run"
RUNIT_DOWN == "/etc/sv/nix-daemon/down"
DARWIN_NIX_DAEMON_DEST == "/Library/LaunchDaemons/org.nixos.nix-daemon.plist"
DARWIN_NIX_DAEMON_SOURCE == "/nix/var/nix/profiles/default/Library/LaunchDaemons/org.nixos.nix-daemon.plist"
SERVICE_DROPIN == "/etc/systemd/system/nix-daemon.service.d"
SOCKET_DROPIN == "/etc/systemd/system/nix-daemon.socket.d"
SYSTEMD_SENTINEL == "/run/systemd/system"
OPENRC_SENTINEL == "/run/openrc"
RUNIT_SENTINEL == "/run/runit"

\* The paths the action reads or writes outside the Nix profile.
DestPaths ==
    { SERVICE_DEST, SOCKET_DEST, TMPFILES_DEST, SERVICE_DROPIN, SOCKET_DROPIN,
      OPENRC_SERVICE, RUNIT_SERVICE, RUNIT_SYMLINK, RUNIT_RUN_PATH, RUNIT_DOWN,
      DARWIN_NIX_DAEMON_DEST, SYSTEMD_SENTINEL, OPENRC_SENTINEL, RUNIT_SENTINEL }

\* The files of the Nix profile the action links, copies or execs.
ProfilePaths ==
    { SERVICE_SRC, SOCKET_SRC, TMPFILES_SRC, DAEMON_SRC, DARWIN_NIX_DAEMON_SOURCE }

\* InitSystem (crate::settings), as matched at configure_init_service.rs:106-162.
InitSystems == { "Systemd", "OpenRC", "Runit", "Launchd", "None" }

-----------------------------------------------------------------------------
(* Filesystem entries.                                                     *)

Absent == [kind |-> "absent", target |-> "", exec |-> FALSE]
RegularFile == [kind |-> "file", target |-> "", exec |-> FALSE]
ExecFile == [kind |-> "file", target |-> "", exec |-> TRUE]
Directory == [kind |-> "dir", target |-> "", exec |-> FALSE]
SymlinkTo(t) == [kind |-> "symlink", target |-> t, exec |-> FALSE]

\* Parent directory of the two files the runit backend writes inside RUNIT_SERVICE.
Parent(p) == IF p \in { RUNIT_RUN_PATH, RUNIT_DOWN } THEN RUNIT_SERVICE ELSE ""

\* The entry a path resolves to after following symlinks (at most two hops are
\* possible here: RUNIT_SYMLINK -> RUNIT_SERVICE, dest -> profile file).
Lookup(h, p) ==
    IF p \in DOMAIN h.fs THEN h.fs[p]
    ELSE IF p \in ProfilePaths /\ h.profile THEN RegularFile
    ELSE Absent

Resolve(h, p) ==
    LET e1 == Lookup(h, p)
        e2 == IF e1.kind = "symlink" THEN Lookup(h, e1.target) ELSE e1
    IN  IF e2.kind = "symlink" THEN Lookup(h, e2.target) ELSE e2

\* Path::exists(): follows symlinks, so a dangling symlink does not exist.
Exists(h, p) == Resolve(h, p).kind \in { "file", "dir" }

\* Path::is_symlink(): does not follow symlinks.
IsSymlink(h, p) == Lookup(h, p).kind = "symlink"

\* Whether the entry is there at all (lstat), dangling symlinks included.
Present(h, p) == Lookup(h, p).kind # "absent"

\* Whether something can be created at p: its parent resolves to a directory.
ParentIsDir(h, p) == Parent(p) = "" \/ Resolve(h, Parent(p)).kind = "dir"

Ok(h) == [ok |-> TRUE, h |-> h]
Failed(h) == [ok |-> FALSE, h |-> h]

SetEntry(h, p, e) == [h EXCEPT !.fs[p] = e]

\* tokio::fs::symlink(src, dest): fails with EEXIST when anything is at dest.
FsSymlink(h, src, dest) ==
    IF Present(h, dest) \/ ~ParentIsDir(h, dest) THEN Failed(h)
    ELSE Ok(SetEntry(h, dest, SymlinkTo(src)))

\* tokio::fs::remove_file(p): unlinks a file or a symlink (not followed).
FsRemoveFile(h, p) ==
    IF Lookup(h, p).kind \in { "file", "symlink" } THEN Ok(SetEntry(h, p, Absent))
    ELSE Failed(h)

\* tokio::fs::remove_dir_all(p): a symlink is unlinked and not followed; a
\* directory goes with everything in it; anything else is an error.
FsRemoveDirAll(h, p) ==
    CASE Lookup(h, p).kind = "symlink" -> Ok(SetEntry(h, p, Absent))
      [] Lookup(h, p).kind = "dir" ->
            Ok([h EXCEPT !.fs = [q \in DOMAIN h.fs |->
                    IF q = p \/ Parent(q) = p THEN Absent ELSE h.fs[q]]])
      [] OTHER -> Failed(h)

\* tokio::fs::create_dir(p): fails when anything is at p.
FsCreateDir(h, p) ==
    IF Present(h, p) \/ ~ParentIsDir(h, p) THEN Failed(h)
    ELSE Ok(SetEntry(h, p, Directory))

\* tokio::fs::write(p, ..) and File::create(p): create or truncate a regular
\* file; an existing file keeps its mode. Fails on a directory, through a
\* dangling symlink into a missing place, or without the parent directory.
FsWrite(h, p) ==
    LET e == Lookup(h, p)
    IN  IF ~ParentIsDir(h, p) THEN Failed(h)
        ELSE CASE e.kind = "absent" -> Ok(SetEntry(h, p, RegularFile))
               [] e.kind = "file" -> Ok(h)
               [] e.kind = "symlink" /\ Resolve(h, p).kind = "file" -> Ok(h)
               [] OTHER -> Failed(h)

\* tokio::fs::set_permissions(p, 0o755): follows symlinks; p must exist.
FsSetExecutable(h, p) ==
    LET e == Lookup(h, p)
    IN  CASE e.kind = "file" -> Ok(SetEntry(h, p, ExecFile))
          [] e.kind = "dir" -> Ok(h)
          [] e.kind = "symlink" /\ Exists(h, p) -> Ok(h)
          [] OTHER -> Failed(h)

\* tokio::fs::copy(src, dest): src must be a file; dest is created or overwritten.
FsCopy(h, src, dest) ==
    IF Resolve(h, src).kind # "file" THEN Failed(h) ELSE FsWrite(h, dest)

-----------------------------------------------------------------------------
(* The service supervisors.  The control binaries are external programs:   *)
(* the model gives each command its documented effect on the registration  *)
(* state, and lets any command, query or filesystem call fail by naming    *)
(* it in the set F of injected failures.                                   *)

SOCKET_UNIT == "nix-daemon.socket"
SERVICE_UNIT == "nix-daemon.service"
Units == { SOCKET_UNIT, SERVICE_UNIT }

\* Where a unit's definition sits in the system unit directory.
UnitDest(unit) == IF unit = SOCKET_UNIT THEN SOCKET_DEST ELSE SERVICE_DEST

\* systemctl is-enabled prints "linked" for a unit whose file is symlinked
\* into the unit directory from outside the unit search path.
Linked(h, unit) == IsSymlink(h, UnitDest(unit)) /\ Exists(h, UnitDest(unit))

\* is_enabled(unit) (lines 846-862): the output starts with "enabled" or
\* with "linked".
IsEnabled(h, unit) == h.enabled[unit] \/ Linked(h, unit)

\* systemctl stop <unit>
SystemctlStop(h, unit) == Ok([h EXCEPT !.active[unit] = FALSE])

\* systemctl disable <unit> [--now]: the unit's symlinks are taken out of
\* the unit directory, the link to its definition among them.
SystemctlDisable(h, unit, now) ==
    Ok([h EXCEPT !.enabled[unit] = FALSE,
                 !.active[unit] = IF now THEN FALSE ELSE @,
                 !.fs[UnitDest(unit)] = IF @.kind = "symlink" THEN Absent ELSE @])

\* systemctl enable <unit file> [--now]
SystemctlEnable(h, unit, now) ==
    Ok([h EXCEPT !.enabled[unit] = TRUE,
                 !.active[unit] = IF now THEN TRUE ELSE @])

\* systemd-tmpfiles --create / --remove --prefix=/nix/var/nix
TmpfilesCreate(h) == Ok([h EXCEPT !.tmpfiles = TRUE])
TmpfilesRemove(h) == Ok([h EXCEPT !.tmpfiles = FALSE])

\* rc-update add|del nix-daemon, rc-service nix-daemon start|stop
RcUpdateAdd(h) == Ok([h EXCEPT !.rcAdded = TRUE])
RcUpdateDel(h) == Ok([h EXCEPT !.rcAdded = FALSE])
RcServiceStart(h) == Ok([h EXCEPT !.rcStarted = TRUE])
RcServiceStop(h) == Ok([h EXCEPT !.rcStarted = FALSE])

\* sv down nix-daemon
SvDown(h) == Ok([h EXCEPT !.svUp = FALSE])

\* runsvdir picks up a service directory linked into the scan directory and
\* starts it unless it holds a `down` file.
RunsvdirScan(h) ==
    IF Resolve(h, RUNIT_SYMLINK).kind = "dir" /\ ~Present(h, RUNIT_DOWN)
    THEN [h EXCEPT !.svUp = TRUE] ELSE h

\* launchctl load -w, enable, kickstart -k, unload
LaunchctlLoad(h) == Ok([h EXCEPT !.ldLoaded = TRUE, !.ldDisabled = FALSE])
LaunchctlEnable(h) == Ok([h EXCEPT !.ldDisabled = FALSE])
LaunchctlKickstart(h) == Ok([h EXCEPT !.ldRunning = TRUE])
LaunchctlUnload(h) == Ok([h EXCEPT !.ldLoaded = FALSE, !.ldRunning = FALSE])

-----------------------------------------------------------------------------
(* Running a handler.  A handler is the sequence of its steps in code      *)
(* order; each step names the call it makes, the condition under which the *)
(* code makes it, and what the code does with a failure: "?" returns from  *)
(* the handler at once, "collect" pushes the error onto `errors` and goes  *)
(* on.  A context carries the host as changed so far, the steps attempted  *)
(* (with their outcome), the answers of the supervisor queries held in     *)
(* locals, the `errors` vector and whether the handler has returned.       *)

Step(op, when, mode) == [op |-> op, when |-> when, mode |-> mode]

Queries ==
    { "is_enabled nix-daemon.socket", "is_active nix-daemon.socket",
      "is_enabled nix-daemon.service", "is_active nix-daemon.service",
      "service_is_disabled" }

\* The validations: a step that changes nothing and fails with an error
\* kind of its own.
Checks ==
    { "check SERVICE_DEST", "check SOCKET_DEST",
      "check OPENRC_SERVICE", "check RUNIT_SERVICE",
      "exists /run/systemd/system", "which systemctl",
      "exists /run/openrc", "which rc-update",
      "exists /run/runit", "which sv" }

\* is_enabled(unit) / is_active(unit) / service_is_disabled(): what the
\* supervisor answers on host h.
Answer(h, q) ==
    CASE q = "is_enabled nix-daemon.socket" -> IsEnabled(h, SOCKET_UNIT)
      [] q = "is_active nix-daemon.socket" -> h.active[SOCKET_UNIT]
      [] q = "is_enabled nix-daemon.service" -> IsEnabled(h, SERVICE_UNIT)
      [] q = "is_active nix-daemon.service" -> h.active[SERVICE_UNIT]
      [] q = "service_is_disabled" -> h.ldDisabled

NewCtx(h) ==
    [h |-> h, log |-> <<>>, errors |-> <<>>, halted |-> FALSE,
     got |-> [q \in Queries |-> FALSE]]

\* (mutant) a non-symlink file at the destination is let through.
check_if_systemd_unit_exists_FilesAllowed(h, src, dest, dropin, F) ==
    IF Exists(h, dest) /\ IsSymlink(h, dest) /\ "read_link" \in F THEN "ReadSymlink"
    ELSE IF Exists(h, dest) /\ IsSymlink(h, dest) /\ Lookup(h, dest).target # src
    THEN "SymlinkExists"
    ELSE IF Exists(h, dropin) THEN "DirExists"
    ELSE "Ok"

\* (mutant) any symlink at the destination is a conflict, whatever its target.
check_if_systemd_unit_exists_AnySymlinkConflicts(h, src, dest, dropin, F) ==
    IF Exists(h, dest) /\ ~IsSymlink(h, dest) THEN "FileExists"
    ELSE IF Exists(h, dest) /\ "read_link" \in F THEN "ReadSymlink"
    ELSE IF Exists(h, dest) THEN "SymlinkExists"
    ELSE IF Exists(h, dropin) THEN "DirExists"
    ELSE "Ok"

\* check_if_systemd_unit_exists(src, dest): "Ok" or the error kind returned.
\* F names the injected failures; "read_link" is the one this check can hit.
check_if_systemd_unit_exists(h, src, dest, dropin, F) ==
    IF Exists(h, dest) /\ ~IsSymlink(h, dest) THEN "FileExists"
    ELSE IF Exists(h, dest) /\ "read_link" \in F THEN "ReadSymlink"
    ELSE IF Exists(h, dest) /\ Lookup(h, dest).target # src THEN "SymlinkExists"
    ELSE IF Exists(h, dropin) THEN "DirExists"
    ELSE "Ok"

\* check_if_runit_unit_exists(dest) (lines 84-90).
check_if_runit_unit_exists(h, dest) == IF Exists(h, dest) THEN "DirExists" ELSE "Ok"

\* check_if_openrc_unit_exists(dest) (lines 93-99).
check_if_openrc_unit_exists(h, dest) == IF Exists(h, dest) THEN "FileExists" ELSE "Ok"

\* The two liveness tests of plan(): the supervisor's runtime directory
\* exists and its control binary is on the PATH (lines 115-121, 132-138,
\* 146-152).
SentinelExists(h, sentinel, missing) == IF Exists(h, sentinel) THEN "Ok" ELSE missing
Which(h, bin, missing) == IF bin \in h.bins THEN "Ok" ELSE missing

\* The validation a check step runs.
CheckKind(h, op, F) ==
    CASE op = "check SERVICE_DEST" ->
            check_if_systemd_unit_exists(h, SERVICE_SRC, SERVICE_DEST, SERVICE_DROPIN, F)
      [] op = "check SOCKET_DEST" ->
            check_if_systemd_unit_exists(h, SOCKET_SRC, SOCKET_DEST, SOCKET_DROPIN, F)
      [] op = "check OPENRC_SERVICE" -> check_if_openrc_unit_exists(h, OPENRC_SERVICE)
      [] op = "check RUNIT_SERVICE" -> check_if_runit_unit_exists(h, RUNIT_SERVICE)
      [] op = "exists /run/systemd/system" ->
            SentinelExists(h, SYSTEMD_SENTINEL, "SystemdMissing")
      [] op = "which systemctl" -> Which(h, "systemctl", "SystemdMissing")
      [] op = "exists /run/openrc" -> SentinelExists(h, OPENRC_SENTINEL, "OpenRCMissing")
      [] op = "which rc-update" -> Which(h, "rc-update", "OpenRCMissing")
      [] op = "exists /run/runit" -> SentinelExists(h, RUNIT_SENTINEL, "RunitMissing")
      [] op = "which sv" -> Which(h, "sv", "RunitMissing")
      [] OTHER -> "Ok"

\* tokio::fs::symlink(RUNIT_SERVICE, RUNIT_SYMLINK) (lines 501-510), after
\* which the supervision tree sees the service directory.
RunitLink(h) ==
    LET r == FsSymlink(h, RUNIT_SERVICE, RUNIT_SYMLINK)
    IN  IF r.ok THEN Ok(RunsvdirScan(r.h)) ELSE r

\* The call each step makes, applied to the host of context c.
Apply(c, op, F) ==
    CASE op = "copy plist" -> FsCopy(c.h, DARWIN_NIX_DAEMON_SOURCE, DARWIN_NIX_DAEMON_DEST)
      [] op = "launchctl load -w" -> LaunchctlLoad(c.h)
      [] op = "launchctl enable" -> LaunchctlEnable(c.h)
      [] op = "launchctl kickstart -k" -> LaunchctlKickstart(c.h)
      [] op = "launchctl unload" -> LaunchctlUnload(c.h)
      [] op = "systemctl stop nix-daemon.socket" -> SystemctlStop(c.h, SOCKET_UNIT)
      [] op = "systemctl stop nix-daemon.service" -> SystemctlStop(c.h, SERVICE_UNIT)
      [] op = "systemctl disable nix-daemon.socket" ->
            SystemctlDisable(c.h, SOCKET_UNIT, FALSE)
      [] op = "systemctl disable nix-daemon.service" ->
            SystemctlDisable(c.h, SERVICE_UNIT, FALSE)
      [] op = "systemctl disable nix-daemon.service [--now]" ->
            SystemctlDisable(c.h, SERVICE_UNIT, c.got["is_active nix-daemon.service"])
      [] op = "systemctl enable --now" -> SystemctlEnable(c.h, SOCKET_UNIT, TRUE)
      [] op = "systemctl enable" -> SystemctlEnable(c.h, SOCKET_UNIT, FALSE)
      [] op = "symlink TMPFILES_DEST" -> FsSymlink(c.h, TMPFILES_SRC, TMPFILES_DEST)
      [] op = "systemd-tmpfiles --create" -> TmpfilesCreate(c.h)
      [] op = "systemd-tmpfiles --remove" -> TmpfilesRemove(c.h)
      [] op = "remove TMPFILES_DEST" -> FsRemoveFile(c.h, TMPFILES_DEST)
      [] op = "remove SERVICE_DEST" -> FsRemoveFile(c.h, SERVICE_DEST)
      [] op = "symlink SERVICE_DEST" -> FsSymlink(c.h, SERVICE_SRC, SERVICE_DEST)
      [] op = "remove SOCKET_DEST" -> FsRemoveFile(c.h, SOCKET_DEST)
      [] op = "symlink SOCKET_DEST" -> FsSymlink(c.h, SOCKET_SRC, SOCKET_DEST)
      [] op = "write OPENRC_SERVICE" -> FsWrite(c.h, OPENRC_SERVICE)
      [] op = "chmod OPENRC_SERVICE" -> FsSetExecutable(c.h, OPENRC_SERVICE)
      [] op = "rc-update add nix-daemon" -> RcUpdateAdd(c.h)
      [] op = "rc-update del nix-daemon" -> RcUpdateDel(c.h)
      [] op = "rc-service nix-daemon start" -> RcServiceStart(c.h)
      [] op = "rc-service nix-daemon stop" -> RcServiceStop(c.h)
      [] op = "remove OPENRC_SERVICE" -> FsRemoveFile(c.h, OPENRC_SERVICE)
      [] op = "create_dir RUNIT_SERVICE" -> FsCreateDir(c.h, RUNIT_SERVICE)
      [] op = "create RUNIT_DOWN" -> FsWrite(c.h, RUNIT_DOWN)
      [] op = "write RUNIT_RUN_PATH" -> FsWrite(c.h, RUNIT_RUN_PATH)
      [] op = "chmod RUNIT_RUN_PATH" -> FsSetExecutable(c.h, RUNIT_RUN_PATH)
      [] op = "symlink RUNIT_SYMLINK" -> RunitLink(c.h)
      [] op = "sv down nix-daemon" -> SvDown(c.h)
      [] op = "remove RUNIT_SYMLINK" -> FsRemoveDirAll(c.h, RUNIT_SYMLINK)
      [] op = "remove RUNIT_SERVICE" -> FsRemoveDirAll(c.h, RUNIT_SERVICE)
      [] op \in Checks -> IF CheckKind(c.h, op, F) = "Ok" THEN Ok(c.h) ELSE Failed(c.h)
      [] OTHER -> Ok(c.h)

\* The condition guarding a step, read where the code reads it.
Holds(c, when, start_daemon) ==
    CASE when = "always" -> TRUE
      [] when = "start_daemon" -> start_daemon
      [] when = "!start_daemon" -> ~start_daemon
      [] when = "socket is enabled" -> c.got["is_enabled nix-daemon.socket"]
      [] when = "socket is active" -> c.got["is_active nix-daemon.socket"]
      [] when = "service is enabled" -> c.got["is_enabled nix-daemon.service"]
      [] when = "service is active" -> c.got["is_active nix-daemon.service"]
      [] when = "service is active, not enabled" ->
            ~c.got["is_enabled nix-daemon.service"] /\ c.got["is_active nix-daemon.service"]
      [] when = "launchd service is disabled" -> c.got["service_is_disabled"]
      [] when = "TMPFILES_DEST missing" -> ~Exists(c.h, TMPFILES_DEST)
      [] when = "SERVICE_DEST exists" -> Exists(c.h, SERVICE_DEST)
      [] when = "SOCKET_DEST exists" -> Exists(c.h, SOCKET_DEST)
      [] when = "start_daemon or socket was active" ->
            start_daemon \/ c.got["is_active nix-daemon.socket"]
      [] when = "neither start_daemon nor socket was active" ->
            ~(start_daemon \/ c.got["is_active nix-daemon.socket"])

\* What a stop / disable / deregister / unload step finds when it is issued:
\* whether its target is, at that moment, active (enabled, registered, loaded).
LiveBefore(h, op) ==
    CASE op = "systemctl stop nix-daemon.socket" -> h.active[SOCKET_UNIT]
      [] op = "systemctl disable nix-daemon.socket" -> IsEnabled(h, SOCKET_UNIT)
      [] op = "systemctl stop nix-daemon.service" -> h.active[SERVICE_UNIT]
      [] op = "systemctl disable nix-daemon.service" -> IsEnabled(h, SERVICE_UNIT)
      [] op = "systemctl disable nix-daemon.service [--now]" -> IsEnabled(h, SERVICE_UNIT)
      [] op = "rc-service nix-daemon stop" -> h.rcStarted
      [] op = "rc-update del nix-daemon" -> h.rcAdded
      [] op = "sv down nix-daemon" -> h.svUp
      [] op = "launchctl unload" -> h.ldLoaded
      [] OTHER -> TRUE

Entry(c, op, ok) == [op |-> op, ok |-> ok, live |-> LiveBefore(c.h, op)]

\* The error a failed step yields: the check's error kind, or the failed call.
ErrorOf(c, op, F) == IF op \in Checks THEN CheckKind(c.h, op, F) ELSE op

\* One step of a handler.
RunStep(c, s, F, start_daemon) ==
    IF c.halted \/ ~Holds(c, s.when, start_daemon) THEN c
    ELSE IF Apply(c, s.op, F).ok /\ s.op \notin F
         THEN [c EXCEPT !.h = Apply(c, s.op, F).h,
                        !.got = IF s.op \in Queries
                                THEN [@ EXCEPT ![s.op] = Answer(c.h, s.op)] ELSE @,
                        !.log = Append(@, Entry(c, s.op, TRUE))]
         ELSE [c EXCEPT !.log = Append(@, Entry(c, s.op, FALSE)),
                        !.errors = Append(@, ErrorOf(c, s.op, F)),
                        !.halted = (s.mode = "?")]

RECURSIVE Run(_, _, _, _)
Run(c, steps, F, start_daemon) ==
    IF steps = <<>> THEN c
    ELSE Run(RunStep(c, Head(steps), F, start_daemon), Tail(steps), F, start_daemon)

-----------------------------------------------------------------------------
(* ConfigureInitService::plan (configure_init_service.rs:102-165).         *)

\* (mutant) the destinations are looked at before the liveness tests.
PlanSystemd_ConflictsFirst ==
    << Step("check SERVICE_DEST", "always", "?"),
       Step("check SOCKET_DEST", "always", "?"),
       Step("exists /run/systemd/system", "always", "?"),
       Step("which systemctl", "always", "?") >>

\* InitSystem::Systemd arm (lines 112-129).
PlanSystemd ==
    << Step("exists /run/systemd/system", "always", "?"),
       Step("which systemctl", "always", "?"),
       Step("check SERVICE_DEST", "always", "?"),
       Step("check SOCKET_DEST", "always", "?") >>

\* InitSystem::OpenRC arm (lines 131-143).
PlanOpenRC ==
    << Step("exists /run/openrc", "always", "?"),
       Step("which rc-update", "always", "?"),
       Step("check OPENRC_SERVICE", "always", "?") >>

\* (mutant) plan() makes the service directory once its checks have passed.
PlanRunit_CreatesDirectory ==
    << Step("exists /run/runit", "always", "?"),
       Step("which sv", "always", "?"),
       Step("check RUNIT_SERVICE", "always", "?"),
       Step("create_dir RUNIT_SERVICE", "always", "?") >>

\* InitSystem::Runit arm (lines 145-157).
PlanRunit ==
    << Step("exists /run/runit", "always", "?"),
       Step("which sv", "always", "?"),
       Step("check RUNIT_SERVICE", "always", "?") >>

\* InitSystem::Launchd and InitSystem::None make no check (lines 108-110,
\* 159-161).
PlanProgram(init) ==
    CASE init = "Systemd" -> PlanSystemd
      [] init = "OpenRC" -> PlanOpenRC
      [] init = "Runit" -> PlanRunit
      [] OTHER -> << >>

\* ConfigureInitService::plan.
Plan(h, init, start_daemon, F) == Run(NewCtx(h), PlanProgram(init), F, start_daemon)

\* The one call of plan() that can fail of itself: the read_link of the
\* systemd conflict check (lines 63-65).
PlanFailures(init) == IF init = "Systemd" THEN { {}, { "read_link" } } ELSE { {} }

-----------------------------------------------------------------------------
(* ConfigureInitService::execute (configure_init_service.rs:247-519).      *)

\* InitSystem::Launchd arm (lines 252-304).
ExecuteLaunchd ==
    << Step("copy plist", "always", "?"),
       Step("launchctl load -w", "always", "?"),
       Step("service_is_disabled", "always", "?"),
       Step("launchctl enable", "launchd service is disabled", "?"),
       Step("launchctl kickstart -k", "start_daemon", "?") >>

\* (mutant) the socket is enabled with --now whatever the start flag.
ExecuteSystemd_EnableNowAlways ==
    << Step("systemctl daemon-reload #1", "start_daemon", "?"),
       Step("is_enabled nix-daemon.socket", "always", "?"),
       Step("systemctl disable nix-daemon.socket", "socket is enabled", "?"),
       Step("is_active nix-daemon.socket", "always", "?"),
       Step("systemctl stop nix-daemon.socket", "socket is active", "?"),
       Step("is_enabled nix-daemon.service", "always", "?"),
       Step("is_active nix-daemon.service", "always", "?"),
       Step("systemctl disable nix-daemon.service [--now]", "service is enabled", "?"),
       Step("systemctl stop nix-daemon.service", "service is active, not enabled", "?"),
       Step("symlink TMPFILES_DEST", "TMPFILES_DEST missing", "?"),
       Step("systemd-tmpfiles --create", "always", "?"),
       Step("check SERVICE_DEST", "always", "?"),
       Step("remove SERVICE_DEST", "SERVICE_DEST exists", "?"),
       Step("symlink SERVICE_DEST", "always", "?"),
       Step("check SOCKET_DEST", "always", "?"),
       Step("remove SOCKET_DEST", "SOCKET_DEST exists", "?"),
       Step("symlink SOCKET_DEST", "always", "?"),
       Step("systemctl daemon-reload #2", "start_daemon", "?"),
       Step("systemctl enable --now", "start_daemon or socket was active", "?"),
       Step("systemctl enable --now", "neither start_daemon nor socket was active", "?") >>

\* InitSystem::Systemd arm (lines 306-429).
ExecuteSystemd ==
    << Step("systemctl daemon-reload #1", "start_daemon", "?"),
       Step("is_enabled nix-daemon.socket", "always", "?"),
       Step("systemctl disable nix-daemon.socket", "socket is enabled", "?"),
       Step("is_active nix-daemon.socket", "always", "?"),
       Step("systemctl stop nix-daemon.socket", "socket is active", "?"),
       Step("is_enabled nix-daemon.service", "always", "?"),
       Step("is_active nix-daemon.service", "always", "?"),
       Step("systemctl disable nix-daemon.service [--now]", "service is enabled", "?"),
       Step("systemctl stop nix-daemon.service", "service is active, not enabled", "?"),
       Step("symlink TMPFILES_DEST", "TMPFILES_DEST missing", "?"),
       Step("systemd-tmpfiles --create", "always", "?"),
       Step("check SERVICE_DEST", "always", "?"),
       Step("remove SERVICE_DEST", "SERVICE_DEST exists", "?"),
       Step("symlink SERVICE_DEST", "always", "?"),
       Step("check SOCKET_DEST", "always", "?"),
       Step("remove SOCKET_DEST", "SOCKET_DEST exists", "?"),
       Step("symlink SOCKET_DEST", "always", "?"),
       Step("systemctl daemon-reload #2", "start_daemon", "?"),
       Step("systemctl enable --now", "start_daemon or socket was active", "?"),
       Step("systemctl enable", "neither start_daemon nor socket was active", "?") >>

\* InitSystem::OpenRC arm (lines 431-472).
ExecuteOpenRC ==
    << Step("write OPENRC_SERVICE", "always", "?"),
       Step("chmod OPENRC_SERVICE", "always", "?"),
       Step("rc-update add nix-daemon", "always", "?"),
       Step("rc-service nix-daemon start", "start_daemon", "?") >>

\* (mutant) the directory is linked into the scan directory as soon as it
\* is made, before anything is put in it.
ExecuteRunit_LinkFirst ==
    << Step("create_dir RUNIT_SERVICE", "always", "?"),
       Step("symlink RUNIT_SYMLINK", "always", "?"),
       Step("create RUNIT_DOWN", "!start_daemon", "?"),
       Step("write RUNIT_RUN_PATH", "always", "?"),
       Step("chmod RUNIT_RUN_PATH", "always", "?") >>

\* InitSystem::Runit arm (lines 474-511).
ExecuteRunit ==
    << Step("create_dir RUNIT_SERVICE", "always", "?"),
       Step("create RUNIT_DOWN", "!start_daemon", "?"),
       Step("write RUNIT_RUN_PATH", "always", "?"),
       Step("chmod RUNIT_RUN_PATH", "always", "?"),
       Step("symlink RUNIT_SYMLINK", "always", "?") >>

ExecuteProgram(init) ==
    CASE init = "Launchd" -> ExecuteLaunchd
      [] init = "Systemd" -> ExecuteSystemd
      [] init = "OpenRC" -> ExecuteOpenRC
      [] init = "Runit" -> ExecuteRunit
      [] OTHER -> << >>

\* ConfigureInitService::execute.
Execute(h, init, start_daemon, F) ==
    Run(NewCtx(h), ExecuteProgram(init), F, start_daemon)

-----------------------------------------------------------------------------
(* ConfigureInitService::revert (configure_init_service.rs:569-757).       *)

\* InitSystem::Launchd arm (lines 575-584): the one step is followed by `?`.
RevertLaunchd ==
    << Step("launchctl unload", "always", "?") >>

\* (mutant) the service is stopped without looking at the flag read earlier.
RevertSystemd_StopUnconditionally ==
    << Step("is_active nix-daemon.socket", "always", "?"),
       Step("is_enabled nix-daemon.socket", "always", "?"),
       Step("is_active nix-daemon.service", "always", "?"),
       Step("is_enabled nix-daemon.service", "always", "?"),
       Step("systemctl stop nix-daemon.socket", "socket is active", "collect"),
       Step("systemctl disable nix-daemon.socket", "socket is enabled", "collect"),
       Step("systemctl stop nix-daemon.service", "always", "collect"),
       Step("systemctl disable nix-daemon.service", "service is enabled", "collect"),
       Step("systemd-tmpfiles --remove", "always", "collect"),
       Step("remove TMPFILES_DEST", "always", "collect"),
       Step("systemctl daemon-reload", "always", "collect") >>

\* (mutant) the service's flags are read only once the socket was dealt with.
RevertSystemd_LateServiceReads ==
    << Step("is_active nix-daemon.socket", "always", "?"),
       Step("is_enabled nix-daemon.socket", "always", "?"),
       Step("systemctl stop nix-daemon.socket", "socket is active", "collect"),
       Step("systemctl disable nix-daemon.socket", "socket is enabled", "collect"),
       Step("is_active nix-daemon.service", "always", "?"),
       Step("is_enabled nix-daemon.service", "always", "?"),
       Step("systemctl stop nix-daemon.service", "service is active", "collect"),
       Step("systemctl disable nix-daemon.service", "service is enabled", "collect"),
       Step("systemd-tmpfiles --remove", "always", "collect"),
       Step("remove TMPFILES_DEST", "always", "collect"),
       Step("systemctl daemon-reload", "always", "collect") >>

\* InitSystem::Systemd arm (lines 586-680): the four flags are read first
\* ("These have to fail fast"); each cleanup step is attempted whatever came
\* before.
RevertSystemd ==
    << Step("is_active nix-daemon.socket", "always", "?"),
       Step("is_enabled nix-daemon.socket", "always", "?"),
       Step("is_active nix-daemon.service", "always", "?"),
       Step("is_enabled nix-daemon.service", "always", "?"),
       Step("systemctl stop nix-daemon.socket", "socket is active", "collect"),
       Step("systemctl disable nix-daemon.socket", "socket is enabled", "collect"),
       Step("systemctl stop nix-daemon.service", "service is active", "collect"),
       Step("systemctl disable nix-daemon.service", "service is enabled", "collect"),
       Step("systemd-tmpfiles --remove", "always", "collect"),
       Step("remove TMPFILES_DEST", "always", "collect"),
       Step("systemctl daemon-reload", "always", "collect") >>

\* (mutant) every step is followed by `?`: the first failure returns.
RevertOpenRC_FailFast ==
    << Step("rc-service nix-daemon stop", "always", "?"),
       Step("rc-update del nix-daemon", "always", "?"),
       Step("remove OPENRC_SERVICE", "always", "?") >>

\* InitSystem::OpenRC arm (lines 682-711).
RevertOpenRC ==
    << Step("rc-service nix-daemon stop", "always", "collect"),
       Step("rc-update del nix-daemon", "always", "collect"),
       Step("remove OPENRC_SERVICE", "always", "collect") >>

\* InitSystem::Runit arm (lines 713-738).
RevertRunit ==
    << Step("sv down nix-daemon", "always", "collect"),
       Step("remove RUNIT_SYMLINK", "always", "collect"),
       Step("remove RUNIT_SERVICE", "always", "collect") >>

RevertProgram(init) ==
    CASE init = "Launchd" -> RevertLaunchd
      [] init = "Systemd" -> RevertSystemd
      [] init = "OpenRC" -> RevertOpenRC
      [] init = "Runit" -> RevertRunit
      [] OTHER -> << >>

\* ConfigureInitService::revert; start_daemon plays no part in it.
Revert(h, init, F) == Run(NewCtx(h), RevertProgram(init), F, FALSE)

\* (mutant) any non-empty errors vector is wrapped in Multiple.
HandlerResult_WrapsSingle(c) ==
    IF c.errors = <<>> THEN [status |-> "Ok", errors |-> <<>>]
    ELSE [status |-> "Multiple", errors |-> c.errors]

\* What a handler returns: Ok(()), the single error, or Multiple(errors)
\* (lines 745-757; execute() stops at its first error and returns it).
HandlerResult(c) ==
    IF c.errors = <<>> THEN [status |-> "Ok", errors |-> <<>>]
    ELSE IF Len(c.errors) = 1 THEN [status |-> "Err", errors |-> c.errors]
    ELSE [status |-> "Multiple", errors |-> c.errors]

\* The calls a failure can be injected into: the steps' own, and the
\* read_link of the conflict check.
Injectable(prog) ==
    ({ prog[i].op : i \in DOMAIN prog } \ Checks)
        \cup (IF \E i \in DOMAIN prog : prog[i].op \in Checks THEN { "read_link" } ELSE {})

ExecuteSteps(init) == Injectable(ExecuteProgram(init))

\* revert()'s steps followed by `?` and those whose error is collected.
FailFastSteps(prog) == { prog[i].op : i \in { j \in DOMAIN prog : prog[j].mode = "?" } }
CollectedSteps(prog) ==
    { prog[i].op : i \in { j \in DOMAIN prog : prog[j].mode = "collect" } }

-----------------------------------------------------------------------------
(* The other actions of a plan (CreateUsers, StartNixDaemonService, ...:   *)
(* plan.rs:60-66).  Each owns one resource of the host, which its          *)
(* execute() builds in two sub-steps and its revert() takes down again.    *)

OpaqueIds == 1 .. (MaxActions + 1)

OpaqueStep(h, id, op) ==
    CASE op = "opaque step 1" -> [h EXCEPT !.fx[id] = "partial"]
      [] op = "opaque step 2" -> [h EXCEPT !.fx[id] = "full"]
      [] op = "opaque undo 2" -> [h EXCEPT !.fx[id] = IF @ = "full" THEN "partial" ELSE @]
      [] op = "opaque undo 1" -> [h EXCEPT !.fx[id] = IF @ = "partial" THEN "none" ELSE @]

\* execute(): the first failing sub-step returns.
OpaqueExecute(h, id, F) ==
    IF "opaque step 1" \in F
    THEN [NewCtx(h) EXCEPT !.errors = << "opaque step 1" >>, !.halted = TRUE]
    ELSE IF "opaque step 2" \in F
    THEN [NewCtx(OpaqueStep(h, id, "opaque step 1")) EXCEPT
              !.errors = << "opaque step 2" >>, !.halted = TRUE]
    ELSE NewCtx(OpaqueStep(OpaqueStep(h, id, "opaque step 1"), id, "opaque step 2"))

\* revert(): best effort, each sub-step undone unless it fails.
OpaqueRevert(h, id, F) ==
    LET h1 == IF "opaque undo 2" \in F THEN h ELSE OpaqueStep(h, id, "opaque undo 2")
        h2 == IF "opaque undo 1" \in F THEN h1 ELSE OpaqueStep(h1, id, "opaque undo 1")
    IN  [NewCtx(h2) EXCEPT
            !.errors = SelectSeq(<< "opaque undo 2", "opaque undo 1" >>,
                                 LAMBDA o : o \in F)]


OpaqueExecuteSteps == { "opaque step 1", "opaque step 2" }
OpaqueRevertSteps == { "opaque undo 2", "opaque undo 1" }

\* An action of the plan: ConfigureInitService { init, start_daemon } or one
\* of the others, told apart by id.
ConfigureAction(init, start_daemon) ==
    [tag |-> "configure_init_service", init |-> init,
     start_daemon |-> start_daemon, id |-> 0]
OpaqueAction(id) ==
    [tag |-> "opaque", init |-> "None", start_daemon |-> FALSE, id |-> id]

\* Action::execute / ActionReceipt::revert: dispatch on the variant.
ActionExecute(h, a, F) ==
    IF a.tag = "configure_init_service" THEN Execute(h, a.init, a.start_daemon, F)
    ELSE OpaqueExecute(h, a.id, F)

ActionRevert(h, a, F) ==
    IF a.tag = "configure_init_service" THEN Revert(h, a.init, F)
    ELSE OpaqueRevert(h, a.id, F)

ActionExecuteSteps(a) ==
    IF a.tag = "configure_init_service" THEN ExecuteSteps(a.init) ELSE OpaqueExecuteSteps


\* execute() returns at its first failure: one injected failure, or none.
ExecuteFailures(a) == { {} } \cup { { st } : st \in ActionExecuteSteps(a) }

\* revert() goes on after a failed step, except one followed by `?`: any set
\* of the collected steps may fail, with at most one of the others.
RevertFailures(a) ==
    IF a.tag = "configure_init_service"
    THEN { R \cup C : R \in { {} } \cup { { st } : st \in FailFastSteps(RevertProgram(a.init)) },
                      C \in SUBSET CollectedSteps(RevertProgram(a.init)) }
    ELSE SUBSET OpaqueRevertSteps

-----------------------------------------------------------------------------
(* Hosts.                                                                  *)

\* A host on which nothing of the installation is present: the supervisors'
\* runtime directories and control binaries are there, the Nix profile too.
CleanHost ==
    [fs |-> [p \in DestPaths |->
                IF p \in { SYSTEMD_SENTINEL, OPENRC_SENTINEL, RUNIT_SENTINEL }
                THEN Directory ELSE Absent],
     profile |-> TRUE,
     bins |-> { "systemctl", "rc-update", "sv" },
     enabled |-> [u \in Units |-> FALSE],
     active |-> [u \in Units |-> FALSE],
     tmpfiles |-> FALSE,
     rcAdded |-> FALSE, rcStarted |-> FALSE,
     svUp |-> FALSE,
     ldLoaded |-> FALSE, ldDisabled |-> FALSE, ldRunning |-> FALSE,
     fx |-> [i \in OpaqueIds |-> "none"]]

-----------------------------------------------------------------------------
(* InstallPlan::install (plan.rs:69-95).                                   *)

\* The plans: N actions, at most one of them ConfigureInitService.
Plans ==
    UNION { { [i \in 1..n |-> OpaqueAction(i)] } \cup
            { [i \in 1..n |-> IF i = k THEN ConfigureAction(init, sd)
                                       ELSE OpaqueAction(i)] :
                k \in 1..n, init \in InitSystems, sd \in BOOLEAN }
          : n \in 1..MaxActions }

\* (mutant) an off-by-one walk: the first receipt twice, the last never.
RollbackVisit_OffByOne(j, n) == IF j > 1 THEN j - 1 ELSE 1

\* `for action_receipt in receipt.actions` (plan.rs:80): the j-th receipt
\* the rollback loop visits, of n.
RollbackVisit(j, n) == j

\* One ActionReceipt: the executed action and its place in the plan.
ActionReceipt(i, a) == [i |-> i, action |-> a]

NoError == [status |-> "Ok", errors |-> <<>>]

\* (mutant) the receipt is pushed whatever execute() returned.
ReceiptAfter_PushAlways(rcpt, r, i, a) == Append(rcpt, ActionReceipt(i, a))

\* The match on execute()'s result (plan.rs:75-77): Ok pushes the receipt.
ReceiptAfter(rcpt, r, i, a) ==
    IF r.status = "Ok" THEN Append(rcpt, ActionReceipt(i, a)) ELSE rcpt

\* (mutant) the loop goes on after a failed execute().
LoopContinues_IgnoreError(r) == TRUE

\* Whether the for loop goes on to the next action (plan.rs:75-77, 89).
LoopContinues(r) == r.status = "Ok"

\* (mutant) the rollback stops at the first revert() that fails.
RollbackDone_StopAtFirstError(n, rcpt, errs) == n = Len(rcpt) \/ errs # <<>>

\* Whether the rollback loop has visited every receipt (plan.rs:80-84).
RollbackDone(n, rcpt, errs) == n = Len(rcpt)

\* revert_errs after one revert() (plan.rs:81-83).
RevertErrsAfter(errs, r, i) ==
    IF r.status = "Ok" THEN errs
    ELSE Append(errs, [status |-> r.status, i |-> i, errors |-> r.errors])

\* (mutant) the execute() error is always wrapped in FailedReverts.
InstallError_AlwaysCompound(e, errs) ==
    [status |-> "FailedReverts", first |-> <<e>>, reverts |-> errs]

\* What install() returns after the rollback (plan.rs:85-89).
InstallError(e, errs) ==
    IF errs # <<>>
    THEN [status |-> "FailedReverts", first |-> <<e>>, reverts |-> errs]
    ELSE e

InitInstall ==
    /\ host = CleanHost
    /\ host0 = CleanHost
    /\ plan \in Plans
    /\ pc = "install"
    /\ idx = 0
    /\ receipt = <<>>
    /\ ridx = 0
    /\ revert_errs = <<>>
    /\ err = NoError
    /\ result = [status |-> "running"]
    /\ calls = <<>>
    /\ cmds = <<>>

\* One turn of `for action in self.actions` (plan.rs:74-77): execute the next
\* action; push its receipt, or keep the error and start the rollback.
InstallExecute ==
    /\ pc = "install"
    /\ idx < Len(plan)
    /\ \E F \in ExecuteFailures(plan[idx + 1]) :
         LET a == plan[idx + 1]
             c == ActionExecute(host, a, F)
             r == HandlerResult(c)
         IN  /\ host' = c.h
             /\ cmds' = c.log
             /\ calls' = Append(calls, [op |-> "execute", i |-> idx + 1,
                                        ok |-> r.status = "Ok"])
             /\ idx' = idx + 1
             /\ receipt' = ReceiptAfter(receipt, r, idx + 1, a)
             /\ IF LoopContinues(r)
                THEN UNCHANGED <<pc, err>>
                ELSE /\ err' = [status |-> "Err", i |-> idx + 1, errors |-> r.errors]
                     /\ pc' = "rollback"
    /\ UNCHANGED <<plan, ridx, revert_errs, result, host0>>

\* The loop ran out of actions: Ok(receipt) (plan.rs:94).
InstallOk ==
    /\ pc = "install"
    /\ idx = Len(plan)
    /\ result' = [status |-> "Ok", receipt |-> receipt]
    /\ pc' = "done"
    /\ UNCHANGED <<host, plan, idx, receipt, ridx, revert_errs, err, calls, host0, cmds>>

\* One turn of `for action_receipt in receipt.actions` (plan.rs:80-84).
InstallRollback ==
    /\ pc = "rollback"
    /\ ~RollbackDone(ridx, receipt, revert_errs)
    /\ LET rc == receipt[RollbackVisit(ridx + 1, Len(receipt))]
       IN  \E F \in RevertFailures(rc.action) :
             LET c == ActionRevert(host, rc.action, F)
                 r == HandlerResult(c)
             IN  /\ host' = c.h
                 /\ cmds' = c.log
                 /\ calls' = Append(calls, [op |-> "revert", i |-> rc.i,
                                            ok |-> r.status = "Ok"])
                 /\ revert_errs' = RevertErrsAfter(revert_errs, r, rc.i)
    /\ ridx' = ridx + 1
    /\ UNCHANGED <<plan, pc, idx, receipt, err, result, host0>>

\* After the rollback loop (plan.rs:85-89): FailedReverts(vec![err],
\* revert_errs) when a revert failed, the execute() error itself otherwise.
InstallErr ==
    /\ pc = "rollback"
    /\ RollbackDone(ridx, receipt, revert_errs)
    /\ result' = InstallError(err, revert_errs)
    /\ pc' = "done"
    /\ UNCHANGED <<host, plan, idx, receipt, ridx, revert_errs, err, calls, host0, cmds>>

Next == InstallExecute \/ InstallOk \/ InstallRollback \/ InstallErr

Spec == InitInstall /\ [][Next]_vars

-----------------------------------------------------------------------------
(* Properties of InstallPlan::install.                                     *)

ExecuteCalls == SelectSeq(calls, LAMBDA c : c.op = "execute")
RevertCalls == SelectSeq(calls, LAMBDA c : c.op = "revert")

\* install() has returned an error.
InstallFailed == pc = "done" /\ result.status # "Ok"

\* The (1-indexed) action whose execute() failed.
FailedAction == ExecuteCalls[Len(ExecuteCalls)].i

AllRevertsOk == \A j \in DOMAIN RevertCalls : RevertCalls[j].ok

\* The filesystem entries and the supervisor registration of a host.
HostState(h) == [h EXCEPT !.fx = [i \in OpaqueIds |-> "none"]]

\* C1: when execute() of action k is the first to fail, revert() is invoked
\* on the completed actions in the order k-1, k-2, ..., 1.
C1_RollbackInReverseOrder ==
    InstallFailed =>
        /\ Len(RevertCalls) = FailedAction - 1
        /\ \A j \in DOMAIN RevertCalls : RevertCalls[j].i = FailedAction - j

\* C2: actions are executed one at a time in declared order; once execute()
\* of action k fails no later action is executed, and revert() is never
\* invoked on action k or on any action after it.
C2_SequentialAndNothingPastFailure ==
    /\ \A j \in DOMAIN ExecuteCalls : ExecuteCalls[j].i = j
    /\ \A j \in DOMAIN ExecuteCalls : j < Len(ExecuteCalls) => ExecuteCalls[j].ok
    /\ \A m, n \in DOMAIN calls :
          calls[m].op = "revert" /\ calls[n].op = "execute" => n < m
    /\ \A j \in DOMAIN RevertCalls :
          /\ ~ExecuteCalls[Len(ExecuteCalls)].ok
          /\ RevertCalls[j].i < FailedAction

C2_Witness ==
    /\ InstallFailed
    /\ Len(plan) = 3
    /\ FailedAction = 2
    /\ Len(RevertCalls) = 1

\* C3: if execute() of some action fails and every rollback revert()
\* succeeds, install() returns exactly the execute() failure, unwrapped.
C3_OriginalErrorWhenRevertsSucceed ==
    InstallFailed /\ AllRevertsOk =>
        /\ result.status = "Err"
        /\ result.i = FailedAction
        /\ Len(result.errors) = 1
        /\ result = err

C3_Witness ==
    /\ InstallFailed
    /\ AllRevertsOk
    /\ Len(RevertCalls) = 2

\* C4: if execute() fails and one or more rollback revert() calls fail, the
\* rollback still attempts revert() on every completed action, and the
\* compound error holds the execute() failure and one entry for every
\* revert() that failed.
C4_CompoundErrorHoldsEveryFailure ==
    InstallFailed /\ ~AllRevertsOk =>
        /\ { RevertCalls[j].i : j \in DOMAIN RevertCalls } = 1 .. (FailedAction - 1)
        /\ Len(RevertCalls) = FailedAction - 1
        /\ result.status = "FailedReverts"
        /\ Len(result.first) = 1
        /\ result.first[1].status = "Err"
        /\ result.first[1].i = FailedAction
        /\ [j \in DOMAIN result.reverts |-> result.reverts[j].i]
             = [j \in DOMAIN SelectSeq(RevertCalls, LAMBDA c : ~c.ok) |->
                    SelectSeq(RevertCalls, LAMBDA c : ~c.ok)[j].i]

C4_Witness ==
    /\ InstallFailed
    /\ Len(RevertCalls) = 2
    /\ ~RevertCalls[1].ok
    /\ RevertCalls[2].ok

\* C5: whenever install() returns an error and every rollback revert()
\* succeeded, the host state (filesystem entries and supervisor registration)
\* equals the state before install() started.
C5_AllOrNothing ==
    InstallFailed /\ AllRevertsOk => HostState(host) = HostState(host0)

\* C6: the receipt only grows: one entry per action whose execute()
\* succeeded, in execution order, never one for a failed action; on full
\* success the returned Receipt has the plan's N entries in declared order.
C6_ReceiptIsTheSuccessfulPrefix ==
    /\ [](/\ Len(receipt) = Len(SelectSeq(ExecuteCalls, LAMBDA c : c.ok))
          /\ \A j \in DOMAIN receipt :
                /\ receipt[j] = ActionReceipt(j, plan[j])
                /\ ExecuteCalls[j].ok
          /\ (pc = "done" /\ result.status = "Ok" =>
                /\ Len(result.receipt) = Len(plan)
                /\ \A j \in DOMAIN plan : result.receipt[j].action = plan[j]))
    /\ [][/\ Len(receipt') >= Len(receipt)
          /\ SubSeq(receipt', 1, Len(receipt)) = receipt]_vars

C6_Witness ==
    /\ pc = "done"
    /\ result.status = "Ok"
    /\ Len(plan) = 3
    /\ Len(receipt) = 3

\* C7: execute() is invoked on an action only while it is Uncompleted and
\* revert() only on an action whose execute() succeeded before; no action is
\* executed twice or reverted twice, and a failed execute() never makes the
\* action count as Completed.
C7_LegalTransitionsOnly ==
    \A n \in DOMAIN calls :
        /\ calls[n].op = "execute" =>
              \A m \in 1 .. (n - 1) : calls[m].i # calls[n].i
        /\ calls[n].op = "revert" =>
              /\ \E m \in 1 .. (n - 1) :
                    calls[m].op = "execute" /\ calls[m].i = calls[n].i /\ calls[m].ok
              /\ \A m \in 1 .. (n - 1) :
                    calls[m].op = "revert" => calls[m].i # calls[n].i

C7_Witness ==
    /\ InstallFailed
    /\ Len(RevertCalls) = 2
    /\ FailedAction = 3

-----------------------------------------------------------------------------
(* ConfigureInitService on its own: execute() on a host, the supervisor    *)
(* moving on its own account afterwards, then revert().                    *)

\* The hosts that differ from h in what the supervisor of `init` reports.
Supervised(h, init) ==
    CASE init = "Systemd" ->
            { [h EXCEPT !.enabled = e, !.active = a] :
                e \in [Units -> BOOLEAN], a \in [Units -> BOOLEAN] }
      [] init = "OpenRC" ->
            { [h EXCEPT !.rcAdded = x, !.rcStarted = y] : x \in BOOLEAN, y \in BOOLEAN }
      [] init = "Runit" -> { [h EXCEPT !.svUp = x] : x \in BOOLEAN }
      [] init = "Launchd" ->
            { [h EXCEPT !.ldLoaded = x, !.ldDisabled = y] : x \in BOOLEAN, y \in BOOLEAN }
      [] OTHER -> { h }

\* The hosts plan() has accepted: nothing at the destinations it looks at.
\* It does not look at TMPFILES_DEST, where a tmpfiles configuration of the
\* same name may already be.
PlannedHosts(init) ==
    IF init = "Systemd"
    THEN { CleanHost, [CleanHost EXCEPT !.fs[TMPFILES_DEST] = RegularFile] }
    ELSE { CleanHost }

InitCIS ==
    /\ \E init \in InitSystems, sd \in BOOLEAN :
          /\ plan = << ConfigureAction(init, sd) >>
          /\ \E h \in PlannedHosts(init) : host \in Supervised(h, init)
    /\ host0 = host
    /\ pc = "planned"
    /\ idx = 0
    /\ receipt = <<>>
    /\ ridx = 0
    /\ revert_errs = <<>>
    /\ err = NoError
    /\ result = [status |-> "running"]
    /\ calls = <<>>
    /\ cmds = <<>>

\* ConfigureInitService::execute, called once.
CISExecute ==
    /\ pc = "planned"
    /\ \E F \in ExecuteFailures(plan[1]) :
         LET c == ActionExecute(host, plan[1], F)
             r == HandlerResult(c)
         IN  /\ host' = c.h
             /\ cmds' = c.log
             /\ result' = r
             /\ calls' = Append(calls, [op |-> "execute", i |-> 1, ok |-> r.status = "Ok"])
             /\ pc' = IF r.status = "Ok" THEN "executed" ELSE "failed"
    /\ host0' = host
    /\ UNCHANGED <<plan, idx, receipt, ridx, revert_errs, err>>

\* ConfigureInitService::execute, called a second time on the host the
\* first call left, no call failing of itself.
CISExecuteAgain ==
    /\ pc = "executed"
    /\ LET c == ActionExecute(host, plan[1], {})
           r == HandlerResult(c)
       IN  /\ host' = c.h
           /\ cmds' = c.log
           /\ result' = r
           /\ calls' = Append(calls, [op |-> "execute", i |-> 1, ok |-> r.status = "Ok"])
    /\ host0' = host
    /\ pc' = "executed again"
    /\ UNCHANGED <<plan, idx, receipt, ridx, revert_errs, err>>

\* Between install and revert the units are started, stopped, enabled or
\* disabled by the administrator or by socket activation.
CISDrift ==
    /\ pc = "executed"
    /\ host' \in Supervised(host, plan[1].init)
    /\ host0' = host'
    /\ cmds' = <<>>
    /\ pc' = "drifted"
    /\ UNCHANGED <<plan, idx, receipt, ridx, revert_errs, err, result, calls>>

\* ConfigureInitService::revert, called on the executed action.
CISRevert ==
    /\ pc \in { "executed", "drifted" }
    /\ \E F \in RevertFailures(plan[1]) :
         LET c == ActionRevert(host, plan[1], F)
             r == HandlerResult(c)
         IN  /\ host' = c.h
             /\ cmds' = c.log
             /\ result' = r
             /\ calls' = Append(calls, [op |-> "revert", i |-> 1, ok |-> r.status = "Ok"])
    /\ host0' = host
    /\ pc' = "reverted"
    /\ UNCHANGED <<plan, idx, receipt, ridx, revert_errs, err>>

NextCIS == CISExecute \/ CISExecuteAgain \/ CISDrift \/ CISRevert

SpecCIS == InitCIS /\ [][NextCIS]_vars

-----------------------------------------------------------------------------
(* Properties of ConfigureInitService::revert.                             *)

Ops(log) == [j \in DOMAIN log |-> log[j].op]
FailedOps(log) == Ops(SelectSeq(log, LAMBDA e : ~e.ok))
Mutating(log) == SelectSeq(log, LAMBDA e : e.op \notin Queries)

\* revert() has returned, and every supervisor query it made was answered.
Reverted == pc = "reverted"
ReadsAnswered == \A j \in DOMAIN cmds : cmds[j].op \in Queries => cmds[j].ok

\* The cleanup steps revert() owes on host h, in order.
DueCleanup(init, h) ==
    CASE init = "Systemd" ->
            (IF h.active[SOCKET_UNIT] THEN << "systemctl stop nix-daemon.socket" >> ELSE <<>>)
            \o (IF IsEnabled(h, SOCKET_UNIT) THEN << "systemctl disable nix-daemon.socket" >> ELSE <<>>)
            \o (IF h.active[SERVICE_UNIT] THEN << "systemctl stop nix-daemon.service" >> ELSE <<>>)
            \o (IF IsEnabled(h, SERVICE_UNIT) THEN << "systemctl disable nix-daemon.service" >> ELSE <<>>)
            \o << "systemd-tmpfiles --remove", "remove TMPFILES_DEST", "systemctl daemon-reload" >>
      [] init = "OpenRC" ->
            << "rc-service nix-daemon stop", "rc-update del nix-daemon", "remove OPENRC_SERVICE" >>
      [] init = "Runit" ->
            << "sv down nix-daemon", "remove RUNIT_SYMLINK", "remove RUNIT_SERVICE" >>
      [] init = "Launchd" -> << "launchctl unload" >>
      [] OTHER -> <<>>

\* C9 (as stated): for every backend and every subset of failing steps,
\* revert() attempts each cleanup step it owes and reports every failure.
C9_EveryFailureSubsetContinues ==
    Reverted =>
        /\ Ops(Mutating(cmds)) = DueCleanup(plan[1].init, host0)
        /\ result.errors = FailedOps(cmds)

\* C9 (amended): for every backend, once the supervisor queries at the head
\* of revert() have been answered, each cleanup step owed is attempted
\* whatever failed before it and the error returned holds exactly the failed
\* steps, in order; a query that fails ends revert() there and then, with
\* that one error and no cleanup step attempted.
C9_CleanupContinuesAfterReads ==
    Reverted =>
        IF ReadsAnswered
        THEN /\ Ops(Mutating(cmds)) = DueCleanup(plan[1].init, host0)
             /\ result.errors = FailedOps(cmds)
             /\ result.status = (CASE Len(FailedOps(cmds)) = 0 -> "Ok"
                                   [] Len(FailedOps(cmds)) = 1 -> "Err"
                                   [] OTHER -> "Multiple")
        ELSE /\ Mutating(cmds) = <<>>
             /\ ~cmds[Len(cmds)].ok
             /\ result = [status |-> "Err", errors |-> << cmds[Len(cmds)].op >>]
             /\ host = host0

\* Two cleanup steps failed and a later one was still attempted and succeeded.
C9_Witness ==
    /\ Reverted
    /\ plan[1].init = "Systemd"
    /\ result.status = "Multiple"
    /\ Len(result.errors) = 2
    /\ cmds[Len(cmds)].op = "systemctl daemon-reload"
    /\ cmds[Len(cmds)].ok

\* The steps that stop, disable, deregister or unload.
StopLike ==
    { "systemctl stop nix-daemon.socket", "systemctl disable nix-daemon.socket",
      "systemctl stop nix-daemon.service", "systemctl disable nix-daemon.service",
      "rc-service nix-daemon stop", "rc-update del nix-daemon",
      "sv down nix-daemon", "launchctl unload" }

\* C10 (as stated): for every backend, revert() issues a stop (disable) only
\* for a unit that is active (enabled) when the command is issued.
C10_EveryBackendStopsOnlyLive ==
    Reverted => \A j \in DOMAIN cmds : cmds[j].op \in StopLike => cmds[j].live

\* C10 (amended): the systemd backend's revert() reads the active/enabled
\* flags before any mutating command and issues a stop (disable) only for a
\* unit that was read as active (enabled) and still is when the command is
\* issued.
C10_SystemdStopsOnlyLive ==
    Reverted /\ plan[1].init = "Systemd" =>
        /\ \A m, n \in DOMAIN cmds :
              cmds[m].op \in Queries /\ cmds[n].op \notin Queries => m < n
        /\ \A j \in DOMAIN cmds :
              cmds[j].op \in StopLike =>
                  /\ cmds[j].live
                  /\ LiveBefore(host0, cmds[j].op)

\* The service was running and is stopped; the socket was not, and is left.
C10_Witness ==
    /\ Reverted
    /\ plan[1].init = "Systemd"
    /\ host0.active[SERVICE_UNIT]
    /\ ~host0.active[SOCKET_UNIT]
    /\ \E j \in DOMAIN cmds : cmds[j].op = "systemctl stop nix-daemon.service"
    /\ \A j \in DOMAIN cmds : cmds[j].op # "systemctl stop nix-daemon.socket"

-----------------------------------------------------------------------------
(* The receipt file and the standalone revert (plan.rs:7-26, 98-101;       *)
(* cli/subcommand/revert.rs:26-48).                                        *)

BoolToJson(b) == IF b THEN "true" ELSE "false"
JsonToBool(j) == j = "true"

\* One action as a JSON object: the variant's tag and its fields.
SerializeAction(a) ==
    [action |-> a.tag, init |-> a.init,
     start_daemon |-> BoolToJson(a.start_daemon), id |-> a.id]

DeserializeAction(o) ==
    [tag |-> o.action, init |-> o.init,
     start_daemon |-> JsonToBool(o.start_daemon), id |-> o.id]

\* #[derive(Serialize)] struct Receipt { actions } (plan.rs:98-101): an
\* object with the one key "actions".
SerializeReceipt(rcpt) ==
    [keys |-> { "actions" },
     actions |-> [j \in DOMAIN rcpt |-> SerializeAction(rcpt[j].action)]]

\* #[derive(Serialize)] struct InstallPlan { settings, actions }
\* (plan.rs:7-26).
SerializePlan(p) ==
    [keys |-> { "settings", "actions" },
     actions |-> [j \in DOMAIN p |-> SerializeAction(p[j])]]

\* serde_json::from_str::<InstallPlan> (revert.rs:35): both fields of the
\* struct are required (plan.rs:7-26 gives neither a default).
DeserializePlan(doc) ==
    IF { "settings", "actions" } \subseteq doc.keys
    THEN [ok |-> TRUE,
          actions |-> [j \in DOMAIN doc.actions |-> DeserializeAction(doc.actions[j])]]
    ELSE [ok |-> FALSE, actions |-> <<>>]

\* The receipt install() returns for plan p when every execute() succeeds.
ReceiptOf(p) == [j \in DOMAIN p |-> ActionReceipt(j, p[j])]

\* The host after the first n actions of p were executed without failure.
RECURSIVE Installed(_, _, _)
Installed(h, p, n) ==
    IF n = 0 THEN h ELSE ActionExecute(Installed(h, p, n - 1), p[n], {}).h

\* The resource of an action that is in no plan and no receipt.
Outside == MaxActions + 1

\* InstallPlan::revert walks the completed actions backward (the j-th
\* revert() of n goes to action n + 1 - j).
PlanRevertVisit(j, n) == n + 1 - j

\* A host on which a plan was installed next to something the plan does not
\* own, the file at the receipt path holding the serialized Receipt or the
\* serialized InstallPlan.
InitRevert ==
    /\ \E p \in Plans :
          /\ host = [Installed(CleanHost, p, Len(p)) EXCEPT !.fx[Outside] = "full"]
          /\ receipt \in { SerializeReceipt(ReceiptOf(p)), SerializePlan(p) }
    /\ host0 = host
    /\ plan = <<>>
    /\ pc = "read"
    /\ idx = 0
    /\ ridx = 0
    /\ revert_errs = <<>>
    /\ err = NoError
    /\ result = [status |-> "running"]
    /\ calls = <<>>
    /\ cmds = <<>>

\* tokio::fs::read_to_string(receipt).wrap_err("Reading receipt")?
\* (revert.rs:32-34).
RevertRead ==
    /\ pc = "read"
    /\ \E ok \in BOOLEAN :
          /\ calls' = Append(calls, [op |-> "read", i |-> 0, ok |-> ok])
          /\ IF ok THEN /\ pc' = "parse"
                        /\ UNCHANGED result
             ELSE /\ pc' = "done"
                  /\ result' = [status |-> "Err", stage |-> "Reading receipt"]
    /\ UNCHANGED <<host, plan, idx, receipt, ridx, revert_errs, err, host0, cmds>>

\* (mutant) the plan is reverted without asking, whatever the flag.
RevertParse_NeverAsks ==
    /\ pc = "parse"
    /\ \E no_confirm \in BOOLEAN :
         LET d == DeserializePlan(receipt)
         IN  /\ plan' = d.actions
             /\ IF d.ok
                THEN /\ calls' = calls \o << [op |-> "parse", i |-> 0, ok |-> TRUE],
                                            [op |-> "no_confirm", i |-> 0, ok |-> no_confirm] >>
                     /\ pc' = "revert"
                     /\ UNCHANGED result
                ELSE /\ calls' = Append(calls, [op |-> "parse", i |-> 0, ok |-> FALSE])
                     /\ pc' = "done"
                     /\ result' = [status |-> "Err", stage |-> "serde_json"]
    /\ UNCHANGED <<host, idx, receipt, ridx, revert_errs, err, host0, cmds>>

\* serde_json::from_str(&install_receipt_string)? and the test of
\* no_confirm (revert.rs:35-37); the history keeps the value of the flag.
RevertParse ==
    /\ pc = "parse"
    /\ \E no_confirm \in BOOLEAN :
         LET d == DeserializePlan(receipt)
         IN  /\ plan' = d.actions
             /\ IF d.ok
                THEN /\ calls' = calls \o << [op |-> "parse", i |-> 0, ok |-> TRUE],
                                            [op |-> "no_confirm", i |-> 0, ok |-> no_confirm] >>
                     /\ pc' = IF no_confirm THEN "revert" ELSE "confirm"
                     /\ UNCHANGED result
                ELSE /\ calls' = Append(calls, [op |-> "parse", i |-> 0, ok |-> FALSE])
                     /\ pc' = "done"
                     /\ result' = [status |-> "Err", stage |-> "serde_json"]
    /\ UNCHANGED <<host, idx, receipt, ridx, revert_errs, err, host0, cmds>>

\* interaction::confirm(plan.describe_revert()).await? (revert.rs:38-40):
\* the user agrees, declines (the process exits, nothing done), or the
\* prompt fails.
RevertConfirm ==
    /\ pc = "confirm"
    /\ \E answer \in { "yes", "no", "error" } :
          /\ calls' = Append(calls, [op |-> "confirm", i |-> 0, ok |-> answer = "yes"])
          /\ CASE answer = "yes" -> /\ pc' = "revert"
                                    /\ UNCHANGED result
               [] answer = "no" -> /\ pc' = "done"
                                   /\ result' = [status |-> "Exited", stage |-> "confirm"]
               [] OTHER -> /\ pc' = "done"
                           /\ result' = [status |-> "Err", stage |-> "confirm"]
    /\ UNCHANGED <<host, plan, idx, receipt, ridx, revert_errs, err, host0, cmds>>

\* plan.revert() (revert.rs:43): one revert() of the backward walk, its
\* failure collected.
PlanRevert ==
    /\ pc = "revert"
    /\ ridx < Len(plan)
    /\ LET i == PlanRevertVisit(ridx + 1, Len(plan))
       IN  \E F \in RevertFailures(plan[i]) :
             LET c == ActionRevert(host, plan[i], F)
                 r == HandlerResult(c)
             IN  /\ host' = c.h
                 /\ cmds' = c.log
                 /\ calls' = Append(calls, [op |-> "revert", i |-> i, ok |-> r.status = "Ok"])
                 /\ revert_errs' = RevertErrsAfter(revert_errs, r, i)
    /\ ridx' = ridx + 1
    /\ UNCHANGED <<plan, pc, idx, receipt, err, result, host0>>

\* (mutant) the result of plan.revert() is dropped.
RevertReturn_AlwaysSuccess ==
    /\ pc = "revert"
    /\ ridx = Len(plan)
    /\ result' = [status |-> "Ok", stage |-> "ExitCode::SUCCESS"]
    /\ pc' = "done"
    /\ UNCHANGED <<host, plan, idx, receipt, ridx, revert_errs, err, calls, host0, cmds>>

\* plan.revert().await? ; Ok(ExitCode::SUCCESS) (revert.rs:43-47).
RevertReturn ==
    /\ pc = "revert"
    /\ ridx = Len(plan)
    /\ result' = IF revert_errs = <<>>
                 THEN [status |-> "Ok", stage |-> "ExitCode::SUCCESS"]
                 ELSE [status |-> "Err", stage |-> "revert"]
    /\ pc' = "done"
    /\ UNCHANGED <<host, plan, idx, receipt, ridx, revert_errs, err, calls, host0, cmds>>

NextRevert == RevertRead \/ RevertParse \/ RevertConfirm \/ PlanRevert \/ RevertReturn

SpecRevert == InitRevert /\ [][NextRevert]_vars

-----------------------------------------------------------------------------
(* Properties of the receipt round trip.                                   *)

\* The file holds a serialized Receipt, and it was read.
ReceiptFileRead ==
    /\ receipt.keys = { "actions" }
    /\ \E j \in DOMAIN calls : calls[j].op = "read" /\ calls[j].ok

\* C8: a Receipt of k completed actions, serialized, then handed to the
\* standalone revert, has revert() invoked on those k actions in the order
\* k, ..., 1; when every revert() succeeds the effects of the k actions are
\* gone, and what belongs to an action outside the receipt is as it was.
C8_ReceiptRoundTripReverts ==
    pc = "done" /\ ReceiptFileRead =>
        /\ [j \in DOMAIN RevertCalls |-> RevertCalls[j].i]
             = [j \in 1 .. Len(receipt.actions) |-> Len(receipt.actions) + 1 - j]
        /\ host.fx[Outside] = host0.fx[Outside]
        /\ AllRevertsOk =>
              \A j \in 1 .. Len(receipt.actions) : host.fx[j] = "none"

\* What the history of one run of the entry point says.
Did(op, ok) == \E j \in DOMAIN calls : calls[j].op = op /\ calls[j].ok = ok
Asked == \E j \in DOMAIN calls : calls[j].op = "confirm"

\* C18: the entry point returns ExitCode::SUCCESS only if the receipt was
\* read and parsed, confirmation (when asked for) was given, and every
\* revert() of the plan ran without error; a read failure, a parse failure,
\* a failed confirmation prompt or any revert() error, the others having
\* succeeded or not, makes it return an error.
C18_SuccessOnlyAfterCleanRevert ==
    pc = "done" =>
        /\ result.status = "Ok" =>
              /\ Did("read", TRUE) /\ Did("parse", TRUE)
              /\ Did("no_confirm", TRUE) \/ Did("confirm", TRUE)
              /\ Len(RevertCalls) = Len(plan)
              /\ AllRevertsOk
        /\ (\/ Did("read", FALSE)
            \/ Did("parse", FALSE)
            \/ result.stage = "confirm" /\ result.status # "Exited"
            \/ ~AllRevertsOk) => result.status = "Err"

\* Of three revert() calls the first failed and the last succeeded.
C18_Witness ==
    /\ pc = "done"
    /\ result.status = "Err"
    /\ Len(RevertCalls) = 3
    /\ ~RevertCalls[1].ok
    /\ RevertCalls[3].ok

\* C19: revert() is invoked only after the receipt file was read and
\* deserialized and, unless no_confirm is set, after the user confirmed;
\* after a declined or failed confirmation no revert() runs; with
\* no_confirm set confirmation is never asked for.
C19_RevertOnlyAfterReadParseConfirm ==
    /\ \A n \in DOMAIN calls :
          calls[n].op = "revert" =>
              /\ \E m \in 1 .. (n - 1) : calls[m].op = "read" /\ calls[m].ok
              /\ \E m \in 1 .. (n - 1) : calls[m].op = "parse" /\ calls[m].ok
              /\ \E m \in 1 .. (n - 1) :
                    calls[m].ok /\ calls[m].op \in { "no_confirm", "confirm" }
    /\ Did("confirm", FALSE) => RevertCalls = <<>>
    /\ Did("no_confirm", TRUE) => ~Asked
    /\ Asked => Did("no_confirm", FALSE)

\* Asked, confirmed, and two actions reverted.
C19_Witness ==
    /\ pc = "done"
    /\ Did("confirm", TRUE)
    /\ Len(RevertCalls) = 2

-----------------------------------------------------------------------------
(* ConfigureInitService::plan on the hosts it may meet, then execute() on  *)
(* the hosts it accepted, then plan() once more.                           *)

\* A link target that is nowhere on the host.
ELSEWHERE == "/usr/lib/systemd/system/nix-daemon.service"

\* What may sit at a destination before plan(): nothing, a file, a
\* directory, a link to the expected source, a link to another file that
\* exists, a link to a place that does not.
DestKinds(src) ==
    { Absent, RegularFile, Directory, SymlinkTo(src), SymlinkTo(DAEMON_SRC),
      SymlinkTo(ELSEWHERE) }

\* With and without the supervisor's runtime directory and control binary.
Liveness(h, sentinel, bin) ==
    { [h EXCEPT !.fs[sentinel] = e, !.bins = b] :
        e \in { Directory, Absent }, b \in { h.bins, h.bins \ { bin } } }

PlanHosts(init) ==
    CASE init = "Systemd" ->
            UNION { Liveness([CleanHost EXCEPT !.fs[SERVICE_DEST] = a,
                                               !.fs[SOCKET_DEST] = b,
                                               !.fs[SERVICE_DROPIN] = c,
                                               !.fs[SOCKET_DROPIN] = d],
                             SYSTEMD_SENTINEL, "systemctl") :
                      a \in DestKinds(SERVICE_SRC), b \in DestKinds(SOCKET_SRC),
                      c \in { Absent, Directory }, d \in { Absent, Directory } }
      [] init = "OpenRC" ->
            UNION { Liveness([CleanHost EXCEPT !.fs[OPENRC_SERVICE] = a],
                             OPENRC_SENTINEL, "rc-update") :
                      a \in DestKinds(OPENRC_SERVICE) }
      [] init = "Runit" ->
            UNION { Liveness([CleanHost EXCEPT !.fs[RUNIT_SERVICE] = a],
                             RUNIT_SENTINEL, "sv") :
                      a \in DestKinds(RUNIT_SERVICE) }
      [] OTHER -> { CleanHost }

InitPlan ==
    /\ \E init \in InitSystems, sd \in BOOLEAN :
          /\ plan = << ConfigureAction(init, sd) >>
          /\ host \in PlanHosts(init)
    /\ host0 = host
    /\ pc = "new"
    /\ idx = 0
    /\ receipt = <<>>
    /\ ridx = 0
    /\ revert_errs = <<>>
    /\ err = NoError
    /\ result = [status |-> "running"]
    /\ calls = <<>>
    /\ cmds = <<>>

\* ConfigureInitService::plan(init, start_daemon), before execute() (at
\* "new") and after it (at "executed").
CISPlan ==
    /\ pc \in { "new", "executed" }
    /\ \E F \in PlanFailures(plan[1].init) :
         LET c == Plan(host, plan[1].init, plan[1].start_daemon, F)
             r == HandlerResult(c)
         IN  /\ host' = c.h
             /\ cmds' = c.log
             /\ result' = r
             /\ calls' = Append(calls, [op |-> "plan", i |-> 1, ok |-> r.status = "Ok"])
             /\ pc' = IF pc = "executed" THEN "replanned"
                      ELSE IF r.status = "Ok" THEN "planned" ELSE "rejected"
    /\ host0' = host
    /\ UNCHANGED <<plan, idx, receipt, ridx, revert_errs, err>>

NextPlan == CISPlan \/ CISExecute

SpecPlan == InitPlan /\ [][NextPlan]_vars

-----------------------------------------------------------------------------
(* Properties of ConfigureInitService::plan.                               *)

\* plan() has just returned (host0 is the host it looked at).
Planned == pc \in { "planned", "rejected", "replanned" }
PlanOk == result.status = "Ok"
PlanError == IF result.status = "Err" THEN result.errors[1] ELSE "none"

\* The liveness tests of the backend pass on host h.
Live(h, init) ==
    CASE init = "Systemd" -> Exists(h, SYSTEMD_SENTINEL) /\ "systemctl" \in h.bins
      [] init = "OpenRC" -> Exists(h, OPENRC_SENTINEL) /\ "rc-update" \in h.bins
      [] init = "Runit" -> Exists(h, RUNIT_SENTINEL) /\ "sv" \in h.bins
      [] OTHER -> TRUE

\* The destination-conflict errors, and the failure to read a link.
ConflictErrors == { "FileExists", "SymlinkExists", "DirExists" }

\* C11: with the systemd liveness tests passing, plan() for the systemd
\* backend fails whenever the service or the socket destination is a
\* regular, non-symlink file, and the error is a destination conflict
\* (FileExists itself when the service destination is the file) -- unless
\* read_link itself failed on the service destination, which is reported
\* instead.
C11_RegularFileAtDestinationRejected ==
    (/\ Planned
     /\ plan[1].init = "Systemd"
     /\ Live(host0, "Systemd")
     /\ RegularFile \in { host0.fs[SERVICE_DEST], host0.fs[SOCKET_DEST] }) =>
        /\ ~PlanOk
        /\ PlanError \in ConflictErrors \cup { "ReadSymlink" }
        /\ host0.fs[SERVICE_DEST] = RegularFile => PlanError = "FileExists"
        /\ PlanError = "ReadSymlink" => IsSymlink(host0, SERVICE_DEST)

\* The socket destination is the file, behind a correctly linked service.
C11_Witness ==
    /\ pc = "rejected"
    /\ plan[1].init = "Systemd"
    /\ host0.fs[SERVICE_DEST] = SymlinkTo(SERVICE_SRC)
    /\ host0.fs[SOCKET_DEST] = RegularFile
    /\ PlanError = "FileExists"

\* C12: with the systemd liveness tests passing and no drop-in directory,
\* plan() for the systemd backend succeeds when each destination is absent
\* or a symlink to exactly its expected source (read_link not failing); so
\* plan() run again over what execute() linked succeeds too.
C12_LinkedOrAbsentDestinationAccepted ==
    (/\ Planned
     /\ plan[1].init = "Systemd"
     /\ Live(host0, "Systemd")
     /\ ~Exists(host0, SERVICE_DROPIN) /\ ~Exists(host0, SOCKET_DROPIN)
     /\ host0.fs[SERVICE_DEST] \in { Absent, SymlinkTo(SERVICE_SRC) }
     /\ host0.fs[SOCKET_DEST] \in { Absent, SymlinkTo(SOCKET_SRC) }) =>
        \/ PlanOk
        \/ /\ PlanError = "ReadSymlink"
           /\ SymlinkTo(SERVICE_SRC) = host0.fs[SERVICE_DEST]
                \/ SymlinkTo(SOCKET_SRC) = host0.fs[SOCKET_DEST]

\* plan() accepted the host a second time, after execute() linked both units.
C12_Witness ==
    /\ pc = "replanned"
    /\ plan[1].init = "Systemd"
    /\ PlanOk
    /\ host0.fs[SERVICE_DEST] = SymlinkTo(SERVICE_SRC)
    /\ host0.fs[SOCKET_DEST] = SymlinkTo(SOCKET_SRC)
    /\ Len(calls) = 3

\* A symlink sits at dest and its target is not src.
WrongLink(h, src, dest) == IsSymlink(h, dest) /\ Lookup(h, dest).target # src

\* C13: with the systemd liveness tests passing, plan() for the systemd
\* backend fails with a destination conflict whenever a destination is a
\* symlink whose target is not its expected source, whether that target
\* exists or not, and whenever a drop-in directory '<dest>.d' exists.
C13_WrongSymlinkOrDropinRejected ==
    (/\ Planned
     /\ plan[1].init = "Systemd"
     /\ Live(host0, "Systemd")
     /\ \/ WrongLink(host0, SERVICE_SRC, SERVICE_DEST)
        \/ WrongLink(host0, SOCKET_SRC, SOCKET_DEST)
        \/ Exists(host0, SERVICE_DROPIN)
        \/ Exists(host0, SOCKET_DROPIN)) =>
        /\ ~PlanOk
        /\ PlanError \in ConflictErrors \cup { "ReadSymlink" }

\* C15: plan() only validates: for every backend and every host, whether it
\* returns Ok or an error, no filesystem entry and no supervisor state has
\* changed when it returns.
C15_PlanChangesNothing ==
    Planned => host = host0

\* plan() refused a host on which the OpenRC script is already there.
C15_Witness ==
    /\ pc = "rejected"
    /\ plan[1].init = "OpenRC"
    /\ PlanError = "FileExists"
    /\ host0.fs[OPENRC_SERVICE] = RegularFile

\* The supervisor-missing error of a backend.
MissingError(init) ==
    CASE init = "Systemd" -> "SystemdMissing"
      [] init = "OpenRC" -> "OpenRCMissing"
      [] init = "Runit" -> "RunitMissing"
      [] OTHER -> "none"

\* C16: for the systemd, OpenRC and runit backends plan() fails with the
\* backend's supervisor-missing error whenever the sentinel path is absent or
\* the control binary cannot be resolved -- whatever sits at the
\* destinations -- and with no such error otherwise; for the launchd and
\* none selectors plan() always succeeds.
C16_LivenessFailureComesFirst ==
    Planned =>
        IF plan[1].init \in { "Systemd", "OpenRC", "Runit" }
        THEN (~Live(host0, plan[1].init)) <=> (PlanError = MissingError(plan[1].init))
        ELSE PlanOk

\* No sentinel directory, and a file in the way at the service destination:
\* the error is the missing supervisor.
C16_Witness ==
    /\ pc = "rejected"
    /\ plan[1].init = "Systemd"
    /\ ~Exists(host0, SYSTEMD_SENTINEL)
    /\ host0.fs[SERVICE_DEST] = RegularFile
    /\ PlanError = "SystemdMissing"

\* C17: with the liveness tests passing, plan() fails with a destination
\* conflict for the OpenRC backend whenever something is at the init script
\* path and for the runit backend whenever something is at the service
\* directory path, be it a file, a directory or a symlink.
C17_OccupiedDestinationRejected ==
    (/\ Planned
     /\ plan[1].init \in { "OpenRC", "Runit" }
     /\ Live(host0, plan[1].init)
     /\ Present(host0, IF plan[1].init = "OpenRC" THEN OPENRC_SERVICE ELSE RUNIT_SERVICE)) =>
        /\ ~PlanOk
        /\ PlanError = (IF plan[1].init = "OpenRC" THEN "FileExists" ELSE "DirExists")

-----------------------------------------------------------------------------
(* Properties of ConfigureInitService::execute.                            *)

\* execute() has just returned Ok (host0 is the host it started on).
Executed == pc = "executed"

Place(S) ==
    IF \E j \in DOMAIN cmds : cmds[j].op \in S
    THEN CHOOSE j \in DOMAIN cmds :
            /\ cmds[j].op \in S
            /\ \A k \in 1 .. (j - 1) : cmds[k].op \notin S
    ELSE 0

\* C20: every successful systemd execute(), with the start flag set or not,
\* runs daemon-reload after the service and socket symlinks are in place and
\* before the socket unit is enabled.
C20_ReloadBetweenLinkAndEnable ==
    Executed /\ plan[1].init = "Systemd" =>
        /\ Place({ "symlink SERVICE_DEST" }) > 0
        /\ Place({ "symlink SOCKET_DEST" }) > Place({ "symlink SERVICE_DEST" })
        /\ Place({ "systemctl daemon-reload #2" }) > Place({ "symlink SOCKET_DEST" })
        /\ Place({ "systemctl enable", "systemctl enable --now" })
             > Place({ "systemctl daemon-reload #2" })

\* execute() has just returned, Ok or not (host0 is the host it started on).
ExecuteReturned == pc \in { "executed", "failed" }

\* The error execute() returned ("none" when it returned Ok).
ExecuteError == IF result.status = "Ok" THEN "none" ELSE result.errors[1]

\* The unit destinations of the systemd backend: source, destination, and
\* the name the steps give the destination.
SystemdUnits ==
    { [src |-> SERVICE_SRC, dest |-> SERVICE_DEST, name |-> "SERVICE_DEST"],
      [src |-> SOCKET_SRC, dest |-> SOCKET_DEST, name |-> "SOCKET_DEST"] }

\* Step j of cmds comes right after the successful conflict check of
\* destination d, with at most the removal of d in between.
RightAfterCheck(j, d) ==
    \/ /\ j > 1
       /\ cmds[j - 1] = [op |-> "check " \o d, ok |-> TRUE, live |-> TRUE]
    \/ /\ j > 2
       /\ cmds[j - 1].op = "remove " \o d /\ cmds[j - 1].ok
       /\ cmds[j - 2] = [op |-> "check " \o d, ok |-> TRUE, live |-> TRUE]

\* C21: systemd execute() touches a unit destination only right after its
\* conflict check has passed; it removes the entry there only when that entry
\* is a symlink to exactly the expected source; a regular file or a symlink
\* to another target is left as it was, and execute(), once it has come to
\* that destination, fails with a conflict error (or with the failure of
\* read_link itself).
C21_OnlyMatchingLinkRemoved ==
    ExecuteReturned /\ plan[1].init = "Systemd" =>
        \A u \in SystemdUnits :
            /\ \A j \in DOMAIN cmds :
                  cmds[j].op \in { "remove " \o u.name, "symlink " \o u.name } =>
                      RightAfterCheck(j, u.name)
            /\ Place({ "remove " \o u.name }) > 0 => host0.fs[u.dest] = SymlinkTo(u.src)
            /\ (host0.fs[u.dest] = RegularFile \/ WrongLink(host0, u.src, u.dest)) =>
                  /\ host.fs[u.dest] = host0.fs[u.dest]
                  /\ ~Executed
                  /\ Place({ "check " \o u.name }) > 0 =>
                        ExecuteError \in ConflictErrors \cup { "ReadSymlink" }

\* The calls that fail with EEXIST when anything is at their destination,
\* and that destination.
CreateTarget(op) ==
    CASE op = "symlink TMPFILES_DEST" -> TMPFILES_DEST
      [] op = "symlink SERVICE_DEST" -> SERVICE_DEST
      [] op = "symlink SOCKET_DEST" -> SOCKET_DEST
      [] op = "create_dir RUNIT_SERVICE" -> RUNIT_SERVICE
      [] op = "symlink RUNIT_SYMLINK" -> RUNIT_SYMLINK
      [] OTHER -> ""

\* C25: for the systemd, OpenRC and runit backends, when plan() accepted the
\* host and execute() ran on that very host, execute() does not fail at a
\* step that creates a filesystem entry with something already at that
\* step's destination -- a symlink whose target does not exist included.
C25_NoCollisionAfterPlan ==
    (/\ pc = "failed"
     /\ plan[1].init \in { "Systemd", "OpenRC", "Runit" }
     /\ Len(calls) = 2
     /\ calls[1] = [op |-> "plan", i |-> 1, ok |-> TRUE]) =>
        ~(/\ CreateTarget(cmds[Len(cmds)].op) # ""
          /\ Present(host, CreateTarget(cmds[Len(cmds)].op)))


\* Step op was attempted before step j of cmds, and succeeded.
DoneBefore(op, j) == \E k \in 1 .. (j - 1) : cmds[k].op = op /\ cmds[k].ok

\* C22: in runit execute() the symlink into the scan directory is the last
\* step, made after the run script was written and made executable and, with
\* the start flag false, after the down marker was created: whenever the
\* link is there the run script is executable and (start flag false) the
\* marker is there, so the supervisor has not started the service; after a
\* successful execute() the marker exists if and only if the start flag is
\* false.
C22_RunitLinkedLast ==
    ExecuteReturned /\ plan[1].init = "Runit" =>
        /\ \A j \in DOMAIN cmds :
              cmds[j].op = "symlink RUNIT_SYMLINK" =>
                  /\ j = Len(cmds)
                  /\ DoneBefore("write RUNIT_RUN_PATH", j)
                  /\ DoneBefore("chmod RUNIT_RUN_PATH", j)
                  /\ ~plan[1].start_daemon => DoneBefore("create RUNIT_DOWN", j)
        /\ Present(host, RUNIT_SYMLINK) =>
              /\ host.fs[RUNIT_SYMLINK] = SymlinkTo(RUNIT_SERVICE)
              /\ host.fs[RUNIT_RUN_PATH] = ExecFile
              /\ ~plan[1].start_daemon => Present(host, RUNIT_DOWN)
        /\ ~plan[1].start_daemon => host.svUp = host0.svUp
        /\ Executed =>
              /\ Present(host, RUNIT_SYMLINK)
              /\ Present(host, RUNIT_DOWN) <=> ~plan[1].start_daemon

\* No start asked for: the directory is linked, holds the marker, and the
\* service is not running.
C22_Witness ==
    /\ Executed
    /\ plan[1].init = "Runit"
    /\ ~plan[1].start_daemon
    /\ Present(host, RUNIT_DOWN)
    /\ host.fs[RUNIT_SYMLINK] = SymlinkTo(RUNIT_SERVICE)
    /\ ~host.svUp

-----------------------------------------------------------------------------
(* Further properties of ConfigureInitService::revert.                     *)

\* The four reads at the head of the systemd revert(), in code order.
FlagReads ==
    << "is_active nix-daemon.socket", "is_enabled nix-daemon.socket",
       "is_active nix-daemon.service", "is_enabled nix-daemon.service" >>

\* The stop / disable command that goes with each read.
CommandOf(q) ==
    CASE q = "is_active nix-daemon.socket" -> "systemctl stop nix-daemon.socket"
      [] q = "is_enabled nix-daemon.socket" -> "systemctl disable nix-daemon.socket"
      [] q = "is_active nix-daemon.service" -> "systemctl stop nix-daemon.service"
      [] q = "is_enabled nix-daemon.service" -> "systemctl disable nix-daemon.service"

\* C23: the systemd revert() makes its four reads (socket active, socket
\* enabled, service active, service enabled) before any mutating command; a
\* failing read ends revert() with that error, the host untouched; otherwise
\* each stop / disable command is issued if and only if its flag, as the
\* supervisor answered on the host revert() started on, was true.
C23_FlagsCapturedFirst ==
    Reverted /\ plan[1].init = "Systemd" =>
        IF ReadsAnswered
        THEN /\ Len(cmds) >= 4
             /\ Ops(SubSeq(cmds, 1, 4)) = FlagReads
             /\ \A j \in 5 .. Len(cmds) : cmds[j].op \notin Queries
             /\ \A k \in 1 .. 4 :
                   (\E j \in DOMAIN cmds : cmds[j].op = CommandOf(FlagReads[k]))
                       <=> Answer(host0, FlagReads[k])
        ELSE /\ Ops(cmds) = SubSeq(FlagReads, 1, Len(cmds))
             /\ \A j \in 1 .. (Len(cmds) - 1) : cmds[j].ok
             /\ result = [status |-> "Err", errors |-> << cmds[Len(cmds)].op >>]
             /\ host = host0

\* Socket and service both active and enabled: stopping and disabling the
\* socket first does not keep the service's commands from being issued.
C23_Witness ==
    /\ Reverted
    /\ plan[1].init = "Systemd"
    /\ \A k \in 1 .. 4 : Answer(host0, FlagReads[k])
    /\ Len(cmds) = 11
    /\ result.status = "Ok"

\* C24: revert() returns Ok exactly when no step failed, the one underlying
\* error, not wrapped, when exactly one step failed, and Multiple holding
\* every failure in step order when two or more failed; the errors reported
\* are as many as the steps that failed.
C24_ResultCountsFailures ==
    Reverted =>
        /\ result.status = "Ok" <=> FailedOps(cmds) = <<>>
        /\ Len(FailedOps(cmds)) = 1 =>
              result = [status |-> "Err", errors |-> << FailedOps(cmds)[1] >>]
        /\ Len(FailedOps(cmds)) >= 2 =>
              result = [status |-> "Multiple", errors |-> FailedOps(cmds)]
        /\ Len(result.errors) = Len(FailedOps(cmds))

\* Of the three runit cleanup steps only the middle one failed.
C24_Witness ==
    /\ Reverted
    /\ plan[1].init = "Runit"
    /\ Len(cmds) = 3
    /\ cmds[1].ok /\ ~cmds[2].ok /\ cmds[3].ok
    /\ result.status = "Err"

-----------------------------------------------------------------------------
(* Further properties of ConfigureInitService::execute.                    *)

\* C26: a socket unit that was active before a systemd execute() is active
\* when execute() returns, whether it returns Ok or an error.
C26_SocketActivationPreserved ==
    (/\ ExecuteReturned
     /\ plan[1].init = "Systemd"
     /\ host0.active[SOCKET_UNIT]) => host.active[SOCKET_UNIT]

\* C29: execute() run a second time, right after it succeeded, on the host
\* it left, succeeds and leaves that host as it is, for every backend.
C29_ExecuteIdempotent ==
    pc = "executed again" =>
        /\ result.status = "Ok"
        /\ host = host0

-----------------------------------------------------------------------------
(* Properties of execute() followed by revert().                           *)

\* revert() is called on the action right after its execute() returned Ok:
\* host0 is the host before execute(), host the one after it, host' the one
\* revert() leaves.
RevertsExecuted == pc = "executed" /\ pc' = "reverted"

\* C27: revert() removes no filesystem entry that was there before
\* execute() and that execute() left as it was.
C27_ForeignEntriesSurviveRevert ==
    [][RevertsExecuted =>
          \A p \in DestPaths :
              Present(host0, p) /\ host.fs[p] = host0.fs[p] => host'.fs[p] = host.fs[p]]_vars

\* C28: for each backend, execute() succeeding on a clean host and revert()
\* then succeeding without one failed step leave the host clean again:
\* nothing at any destination, no unit enabled, active, registered or loaded.
C28_RevertRestoresCleanHost ==
    [][RevertsExecuted /\ host0 = CleanHost /\ result'.status = "Ok" =>
          host' = CleanHost]_vars

=============================================================================
